---- MODULE Spec2Model ----
(***************************************************************************)
(* A model of the elfin ELF reader: ElfHeaders::from_file,                 *)
(* ElfHeaders::sections_from_file, SectionHeader::from_file and the byte   *)
(* decoders of utils.rs, run against a byte source that delivers short     *)
(* reads at end of file and may fail one I/O call.                         *)
(***************************************************************************)
EXTENDS Integers, Sequences, FiniteSets, TLC

VARIABLES
    file,            \* the byte source: [len, nz], nz maps the offsets of non-zero bytes
    pos,             \* the file position of the open File
    ioCount,         \* number of read/seek calls issued on the File so far
    failAt,          \* the read/seek call (by number) that returns an io::Error; 0 = none
    overflowChecks,  \* TRUE: built with overflow checks (debug); FALSE: wrapping (release)
    hdr,             \* the caller's ElfHeaders record
    pc,              \* position of the caller / of sections_from_file
    result,          \* what the last finished call returned
    reads,           \* log of the calls issued on the File by the running call
    sections,        \* the local Vec<Section> of sections_from_file
    string_table_data, \* the local copy of the string table payload
    returned         \* the Vec<Section> handed to the caller (Ok only)

vars == <<file, pos, ioCount, failAt, overflowChecks, hdr, pc, result, reads,
          sections, string_table_data, returned>>

\* ------------------------------------------------------------------ bounds
MaxSections == 3

\* --------------------------------------------------------------- constants
EIDENTSIZE == 16
SHT_NULL == 0
SHT_PROGBITS == 1
SHT_SYMTAB == 2
SHT_STRTAB == 3
SHT_RELA == 4
SHT_HASH == 5
SHT_DYN == 6
SHT_NOTE == 7
SHT_NOBITS == 8
SHT_REL == 9

ElfMagic == <<127, 69, 76, 70>>

\* ------------------------------------------------------- utils.rs decoders
Min(a, b) == IF a < b THEN a ELSE b
Max(a, b) == IF a > b THEN a ELSE b

\* x << k on an unsigned value whose result fits the target width
Shl(x, k) == IF x = 0 THEN 0 ELSE x * (2 ^ k)

\* the operands of | occupy disjoint bits, so | is +
bytes_to_u16(bytes) == bytes[1] + Shl(bytes[2], 8)

bytes_to_u32(bytes) ==
    bytes[1] + Shl(bytes[2], 8) + Shl(bytes[3], 16) + Shl(bytes[4], 24)

RECURSIVE U64Fold(_, _, _)
U64Fold(bytes, i, num) ==
    IF i > Len(bytes) THEN num
    ELSE U64Fold(bytes, i + 1, num + Shl(bytes[i], (i - 1) * 8))

bytes_to_u64(bytes) == U64Fold(bytes, 1, 0)

\* the for loop of read_null_term_str over bytes[start..], 1-based index i
RECURSIVE NullTermScan(_, _, _)
NullTermScan(bytes, i, s) ==
    IF i > Len(bytes) THEN s
    ELSE IF bytes[i] = 0 THEN s
    ELSE NullTermScan(bytes, i + 1, Append(s, bytes[i]))

\* slicing bytes[start..] panics when start > len
read_null_term_str(start, bytes) ==
    IF start > Len(bytes)
    THEN [panic |-> TRUE, s |-> <<>>]
    ELSE [panic |-> FALSE, s |-> NullTermScan(bytes, start + 1, <<>>)]

\* ------------------------------------------------------------ the File
ByteAt(f, off) == IF off \in DOMAIN f.nz THEN f.nz[off] ELSE 0

\* File::read(&mut buf) at position p: how many bytes are delivered
ReadCount(f, p, n) == Min(n, Max(0, f.len - p))

\* the buffer after the read: delivered bytes in front, the rest untouched
ReadInto(f, p, buf) ==
    [i \in 1..Len(buf) |->
        IF i <= ReadCount(f, p, Len(buf)) THEN ByteAt(f, p + i - 1) ELSE buf[i]]

Zeros(n) == [i \in 1..n |-> 0]

\* ------------------------------------------------------------- results
NoArg == 0 - 1
NoResult == [tag |-> "None", desc |-> "", arg |-> NoArg, cause |-> "None"]
OkResult == [tag |-> "Ok", desc |-> "", arg |-> NoArg, cause |-> "None"]
PanicResult(why) == [tag |-> "Panic", desc |-> why, arg |-> NoArg, cause |-> "None"]
\* impl From<io::Error> for ElfError
IoError == [tag |-> "Err", desc |-> "An IO Error occurred", arg |-> NoArg, cause |-> "Some"]
NotElfError ==
    [tag |-> "Err", desc |-> "Invalid binary format; not an ELF file",
     arg |-> NoArg, cause |-> "None"]
ShortReadError(capacity) ==
    [tag |-> "Err", desc |-> "Failed to read {} (size) bytes from section in file",
     arg |-> capacity, cause |-> "None"]
StringTableTypeError ==
    [tag |-> "Err", desc |-> "String Header Table is not a string table type section",
     arg |-> NoArg, cause |-> "None"]

\* ElfHeaders::new
ElfHeadersNew ==
    [ident |-> Zeros(EIDENTSIZE), file_type |-> 0, machine |-> 0, version |-> 0,
     entry_addr |-> 0, program_offset |-> 0, section_offset |-> 0, cpu_flags |-> 0,
     ehead_size |-> 0, pheader_size |-> 0, pheader_count |-> 0, sheader_size |-> 0,
     sheader_count |-> 0, str_header_index |-> 0]

\* ----------------------------------------------------- calls on the File
\* One entry of the call log: who = "ehdr" | "shdr" | "data", idx = the section
\* the call serves (NoArg for the ELF header), got = NoArg when the call failed.
LogEntry(op, who, idx, at, want, got) ==
    [op |-> op, who |-> who, idx |-> idx, at |-> at, want |-> want, got |-> got]

\* f.read(&mut bufs[b])? on the running call's state st
FileRead(st, b, who, idx) ==
    LET n == Len(st.bufs[b])
        got == ReadCount(file, st.pos, n)
    IN  IF st.io + 1 = failAt
        THEN [st EXCEPT !.io = @ + 1,
                        !.log = Append(@, LogEntry("read", who, idx, st.pos, n, NoArg)),
                        !.res = IoError]
        ELSE [st EXCEPT !.io = @ + 1,
                        !.log = Append(@, LogEntry("read", who, idx, st.pos, n, got)),
                        !.bufs[b] = ReadInto(file, st.pos, @),
                        !.pos = @ + got]

\* f.seek(io::SeekFrom::Start(target))?
FileSeek(st, target, who, idx) ==
    IF st.io + 1 = failAt
    THEN [st EXCEPT !.io = @ + 1,
                    !.log = Append(@, LogEntry("seek", who, idx, st.pos, target, NoArg)),
                    !.res = IoError]
    ELSE [st EXCEPT !.io = @ + 1,
                    !.log = Append(@, LogEntry("seek", who, idx, st.pos, target, target)),
                    !.pos = target]

Decode(buf) ==
    CASE Len(buf) = 2 -> bytes_to_u16(buf)
      [] Len(buf) = 4 -> bytes_to_u32(buf)
      [] Len(buf) = 8 -> bytes_to_u64(buf)
      [] OTHER -> buf

\* the element of a one-element set; { e(x) : x \in {v} } evaluates v once
Only(S) == CHOOSE r \in S : TRUE

\* ------------------------------------------------- ElfHeaders::from_file
\* the reads of from_file in order: the field each fills and the buffer
\* variable it reads into (a buffer is reused until the next `let mut`)
HeaderReads ==
    << [field |-> "ident",            buf |-> "ident"],
       [field |-> "file_type",        buf |-> "h2"],
       [field |-> "machine",          buf |-> "h2"],
       [field |-> "version",          buf |-> "h4"],
       [field |-> "entry_addr",       buf |-> "h8"],
       [field |-> "program_offset",   buf |-> "h8"],
       [field |-> "section_offset",   buf |-> "h8"],
       [field |-> "cpu_flags",        buf |-> "h4"],
       [field |-> "ehead_size",       buf |-> "g2"],
       [field |-> "pheader_size",     buf |-> "g2"],
       [field |-> "pheader_count",    buf |-> "g2"],
       [field |-> "sheader_size",     buf |-> "g2"],
       [field |-> "sheader_count",    buf |-> "g2"],
       [field |-> "str_header_index", buf |-> "g2"] >>

HeaderBuffers ==
    [ident |-> Zeros(EIDENTSIZE), h2 |-> Zeros(2), h4 |-> Zeros(4), h8 |-> Zeros(8),
     g2 |-> Zeros(2)]

MagicOkThreeBytes(buffer) == SubSeq(buffer, 1, 3) = SubSeq(ElfMagic, 1, 3)

\* buffer[0..4] != [0x7f, 0x45, 0x4c, 0x46]
MagicOk(buffer) == SubSeq(buffer, 1, 4) = ElfMagic

RECURSIVE HeaderFold(_, _)
HeaderFold(st, k) ==
    IF k > Len(HeaderReads) THEN [st EXCEPT !.res = OkResult]
    ELSE Only({ IF s1.res.tag = "Err" THEN s1
                ELSE IF k = 1 /\ ~MagicOk(s1.bufs[HeaderReads[k].buf])
                THEN [s1 EXCEPT !.res = NotElfError]
                ELSE HeaderFold(
                         [s1 EXCEPT !.hdr[HeaderReads[k].field] =
                                        Decode(s1.bufs[HeaderReads[k].buf])],
                         k + 1)
                : s1 \in {FileRead(st, HeaderReads[k].buf, "ehdr", NoArg)} })

from_file(h) ==
    HeaderFold([hdr |-> h, bufs |-> HeaderBuffers, pos |-> pos, io |-> ioCount,
                log |-> <<>>, res |-> NoResult], 1)

FromFile ==
    /\ pc = "start"
    /\ \E st \in {from_file(hdr)} :
           /\ hdr' = st.hdr
           /\ pos' = st.pos
           /\ ioCount' = st.io
           /\ reads' = st.log
           /\ result' = st.res
           /\ pc' = IF st.res.tag = "Ok" THEN "parsed" ELSE "failed"
    /\ UNCHANGED <<file, failAt, overflowChecks, sections, string_table_data, returned>>

\* ----------------------------------------------- SectionHeader::from_file
\* SectionHeader::new(location); link, info, align and entry_size are never
\* read from the file and stay 0
SectionHeaderNew(location) ==
    [ptr |-> location, str_name |-> <<>>, sec_type |-> "Unknown", name |-> 0,
     i_type |-> 0, flags |-> 0, img_addr |-> 0, offset |-> 0, size |-> 0,
     link |-> 0, info |-> 0, align |-> 0, entry_size |-> 0]

\* the match on self.i_type
SectionTypeOf(i_type) ==
    CASE i_type = SHT_NULL -> "Unused"
      [] i_type = SHT_PROGBITS -> "ProgramData"
      [] i_type = SHT_SYMTAB -> "SymbolTable"
      [] i_type = SHT_STRTAB -> "StringTable"
      [] i_type = SHT_RELA -> "Rela"
      [] i_type = SHT_HASH -> "Hash"
      [] i_type = SHT_DYN -> "Dynamic"
      [] i_type = SHT_NOTE -> "Notes"
      [] i_type = SHT_NOBITS -> "NoBits"
      [] i_type = SHT_REL -> "Rel"
      [] OTHER -> "Unknown"

SectionReads ==
    << [field |-> "name",     buf |-> "s4"],
       [field |-> "i_type",   buf |-> "s4"],
       [field |-> "flags",    buf |-> "s8"],
       [field |-> "img_addr", buf |-> "s8"],
       [field |-> "offset",   buf |-> "s8"],
       [field |-> "size",     buf |-> "s8"] >>

SectionBuffers == [s4 |-> Zeros(4), s8 |-> Zeros(8)]

\* the field assignment after one read; i_type also sets sec_type
SetSectionField(sh, field, v) ==
    IF field = "i_type"
    THEN [sh EXCEPT !.i_type = v, !.sec_type = SectionTypeOf(v)]
    ELSE [sh EXCEPT ![field] = v]

\* st.sh is the SectionHeader being filled
RECURSIVE SectionHeaderFold(_, _, _)
SectionHeaderFold(st, idx, k) ==
    IF k > Len(SectionReads) THEN st
    ELSE Only({ IF s1.res.tag = "Err" THEN s1
                ELSE SectionHeaderFold(
                         [s1 EXCEPT !.sh = SetSectionField(@, SectionReads[k].field,
                                               Decode(s1.bufs[SectionReads[k].buf]))],
                         idx, k + 1)
                : s1 \in {FileRead(st, SectionReads[k].buf, "shdr", idx)} })

SectionHeader_from_file(st, idx) ==
    Only({ IF s0.res.tag = "Err" THEN s0 ELSE SectionHeaderFold(s0, idx, 1)
           : s0 \in {FileSeek([st EXCEPT !.bufs = SectionBuffers], st.sh.ptr,
                              "shdr", idx)} })

\* ------------------------------------- ElfHeaders::sections_from_file
\* self.sheader_size * i in u16: the product and whether it overflowed
MulU16(a, b) == [overflow |-> a * b >= 65536, val |-> (a * b) % 65536]

\* first loop: one SectionHeader per table entry
RECURSIVE HeadersLoop(_, _)
HeadersLoop(st, i) ==
    IF i >= hdr.sheader_count THEN st
    ELSE IF MulU16(hdr.sheader_size, i).overflow /\ overflowChecks
    THEN [st EXCEPT !.res = PanicResult("attempt to multiply with overflow")]
    ELSE Only({ IF s1.res.tag = "Err" THEN s1
                ELSE HeadersLoop([s1 EXCEPT !.out = Append(@, s1.sh)], i + 1)
                : s1 \in {SectionHeader_from_file(
                              [st EXCEPT !.sh = SectionHeaderNew(
                                   hdr.section_offset + MulU16(hdr.sheader_size, i).val)],
                              i)} })

ReadSectionHeaders ==
    /\ pc = "parsed"
    /\ \E st \in {HeadersLoop([sh |-> SectionHeaderNew(0), bufs |-> SectionBuffers,
                               pos |-> pos, io |-> ioCount, log |-> <<>>,
                               res |-> NoResult, out |-> <<>>], 0)} :
           /\ pos' = st.pos
           /\ ioCount' = st.io
           /\ reads' = st.log
           /\ result' = st.res
           /\ sections' = [i \in 1..Len(st.out) |-> [header |-> st.out[i], data |-> <<>>]]
           /\ pc' = IF st.res.tag = "None" THEN "data" ELSE "done"
    /\ UNCHANGED <<file, failAt, overflowChecks, hdr, string_table_data, returned>>

\* header.sec_type != SectionType::NoBits
ReadsPayload(sec_type) == sec_type # "NoBits"

ShortReadNever(read, len) == FALSE

\* read != buffer.len()
ShortRead(read, len) == read # len

\* sections.push(Section{header, data: buffer})
Push(st, header) == [st EXCEPT !.out = Append(@, [header |-> header, data |-> st.bufs.data])]

PayloadStartAtEntry(header) == header.ptr

\* io::SeekFrom::Start(header.offset)
PayloadStart(header) == header.offset

\* the seek and the read of one payload, with the check of the count read
ReadPayload(st, header, idx) ==
    Only({ IF s1.res.tag = "Err" THEN s1
           ELSE Only({ IF s2.res.tag = "Err" THEN s2
                       ELSE IF ShortRead(s2.log[Len(s2.log)].got, Len(s2.bufs.data))
                       THEN [s2 EXCEPT !.res = ShortReadError(Len(s2.bufs.data))]
                       ELSE s2
                       : s2 \in {FileRead(s1, "data", "data", idx)} })
           : s1 \in {FileSeek(st, PayloadStart(header), "data", idx)} })

\* second loop: the payload of each header, in table order; st.out is `sections`
RECURSIVE DataLoop(_, _, _)
DataLoop(st, headers, i) ==
    IF i > Len(headers) THEN st
    ELSE Only({ IF s1.res.tag # "None" THEN s1
                ELSE DataLoop(Push(s1, headers[i]), headers, i + 1)
                : s1 \in { IF ReadsPayload(headers[i].sec_type)
                           THEN ReadPayload(
                                    [st EXCEPT !.bufs = [data |-> Zeros(headers[i].size)]],
                                    headers[i], i - 1)
                           ELSE [st EXCEPT !.bufs = [data |-> Zeros(headers[i].size)]] } })

ReadSectionData ==
    /\ pc = "data"
    /\ \E st \in {DataLoop([bufs |-> [data |-> <<>>], pos |-> pos, io |-> ioCount,
                            log |-> reads, res |-> NoResult, out |-> <<>>],
                           [i \in 1..Len(sections) |-> sections[i].header], 1)} :
           /\ pos' = st.pos
           /\ ioCount' = st.io
           /\ reads' = st.log
           /\ result' = st.res
           /\ sections' = st.out
           /\ pc' = IF st.res.tag = "None" THEN "strtab" ELSE "done"
    /\ UNCHANGED <<file, failAt, overflowChecks, hdr, string_table_data, returned>>

StrTblTypeAny(sec_type) == TRUE

\* str_tbl.header.sec_type != SectionType::StringTable
StrTblTypeOk(sec_type) == sec_type = "StringTable"

\* the block that fetches the string table: indexing panics out of bounds
GetStringTable ==
    /\ pc = "strtab"
    /\ IF hdr.str_header_index >= Len(sections)
       THEN /\ result' = PanicResult("index out of bounds")
            /\ pc' = "done"
            /\ UNCHANGED string_table_data
       ELSE IF ~StrTblTypeOk(sections[hdr.str_header_index + 1].header.sec_type)
       THEN /\ result' = StringTableTypeError
            /\ pc' = "done"
            /\ UNCHANGED string_table_data
       ELSE /\ string_table_data' = sections[hdr.str_header_index + 1].data
            /\ pc' = "names"
            /\ UNCHANGED result
    /\ UNCHANGED <<file, pos, ioCount, failAt, overflowChecks, hdr, reads, sections,
                   returned>>

\* third loop: section.header.str_name = read_null_term_str(start, &table)
RECURSIVE NamesLoop(_, _)
NamesLoop(st, i) ==
    IF i > Len(st.out) THEN [st EXCEPT !.res = OkResult]
    ELSE Only({ IF name.panic
                THEN [s0 EXCEPT !.res = PanicResult("slice index starts out of range")]
                ELSE NamesLoop([s0 EXCEPT !.out[i].header.str_name = name.s], i + 1)
                : s0 \in {st},
                  name \in {read_null_term_str(st.out[i].header.name, string_table_data)} })

ExpandNames ==
    /\ pc = "names"
    /\ \E st \in {NamesLoop([out |-> sections, res |-> NoResult], 1)} :
           /\ sections' = st.out
           /\ result' = st.res
           /\ returned' = IF st.res.tag = "Ok" THEN st.out ELSE returned
           /\ pc' = "done"
    /\ UNCHANGED <<file, pos, ioCount, failAt, overflowChecks, hdr, reads,
                   string_table_data>>

\* ------------------------------------------------------ the byte sources
\* The files the reader is run on are ELF64 images laid out in the order the
\* reader decodes them: the 64-byte header, the section header table at
\* section_offset = 64 with entries shsize apart, then 8 bytes of payload room
\* per section; each image may be cut short.
StrBytes == <<0, 97, 98, 0>>       \* "\0ab\0"

\* the section table entries an image is composed of: type code, name offset, size
SectionMenu ==
    { [type |-> SHT_STRTAB,   name |-> 0, size |-> 4],    \* "\0ab\0"
      [type |-> SHT_STRTAB,   name |-> 1, size |-> 3],    \* "\0ab", no terminator
      [type |-> SHT_PROGBITS, name |-> 1, size |-> 4],
      [type |-> SHT_PROGBITS, name |-> 5, size |-> 0],
      [type |-> SHT_NOBITS,   name |-> 3, size |-> 2],
      [type |-> SHT_NOBITS,   name |-> 4, size |-> 0] }

PlainMenu ==
    { [type |-> SHT_STRTAB,   name |-> 0, size |-> 4],
      [type |-> SHT_PROGBITS, name |-> 1, size |-> 4] }

SecSeqs(menu) == UNION { [1..n -> menu] : n \in 0..MaxSections }

EntryAt(in, i) == 64 + i * in.shsize
PayloadAt(in, i) == 64 + Len(in.secs) * in.shsize + 8 * i
FullLen(secs, shsize) == 64 + Len(secs) * shsize + 8 * Len(secs)

Field(off, w, v) == [off |-> off, w |-> w, v |-> v]

Writes(in) ==
    { Field(i - 1, 1, in.magic[i]) : i \in 1..4 }
    \cup { Field(4, 1, 2), Field(5, 1, 1), Field(6, 1, 1) }
    \cup { Field(16, 2, 2), Field(18, 2, 62), Field(20, 4, 1), Field(24, 8, 4198400),
           Field(32, 8, 64), Field(40, 8, 64), Field(48, 4, 0), Field(52, 2, 64),
           Field(54, 2, 56), Field(56, 2, 0), Field(58, 2, in.shsize),
           Field(60, 2, Len(in.secs)), Field(62, 2, in.stridx) }
    \cup UNION { { Field(EntryAt(in, i - 1), 4, in.secs[i].name),
                   Field(EntryAt(in, i - 1) + 4, 4, in.secs[i].type),
                   Field(EntryAt(in, i - 1) + 8, 8, 2),
                   Field(EntryAt(in, i - 1) + 16, 8, 0),
                   Field(EntryAt(in, i - 1) + 24, 8, PayloadAt(in, i - 1)),
                   Field(EntryAt(in, i - 1) + 32, 8, in.secs[i].size) }
                 : i \in 1..Len(in.secs) }
    \cup UNION { { Field(PayloadAt(in, i - 1) + j - 1, 1, StrBytes[j])
                   : j \in 1..in.secs[i].size }
                 : i \in { k \in 1..Len(in.secs) : in.secs[k].type # SHT_NOBITS } }

\* byte k of the little-endian encoding of v (v below 2^31)
LEByte(v, k) == IF k >= 4 THEN 0 ELSE (v \div (256 ^ k)) % 256

ImageByte(in, o) ==
    LET ws == { w \in Writes(in) : w.off <= o /\ o < w.off + w.w }
    IN  IF ws = {} THEN 0
        ELSE LET w == CHOOSE x \in ws : TRUE IN LEByte(w.v, o - w.off)

MkFile(in) ==
    LET cand == UNION { w.off .. (w.off + w.w - 1) : w \in Writes(in) }
        live == { o \in cand : o < in.len /\ ImageByte(in, o) # 0 }
    IN  [len |-> in.len, nz |-> [o \in live |-> ImageByte(in, o)]]

Input(magic, secs, stridx, shsize, len, fa, oc) ==
    [magic |-> magic, secs |-> secs, stridx |-> stridx, shsize |-> shsize,
     len |-> len, failAt |-> fa, oc |-> oc]

\* header cases: good and bad magic, files cut inside the header, one failing read
HeaderInputs ==
    { Input(m, <<>>, 0, 64, len, fa, FALSE) :
        m \in { ElfMagic, <<127, 69, 76, 71>>, <<69, 76, 70, 127>> },
        len \in { 0, 3, 16, 30, 52, 64 },
        fa \in 0..Len(HeaderReads) }

\* section cases: every table over the menu, every string table index,
\* the whole image or one that ends 2 bytes into the last payload
SectionInputs ==
    { Input(ElfMagic, secs, x, 64,
            IF cut /\ Len(secs) > 0 THEN FullLen(secs, 64) - 6 ELSE FullLen(secs, 64),
            0, FALSE) :
        secs \in SecSeqs(SectionMenu), x \in 0..MaxSections, cut \in BOOLEAN }

\* tables whose entry size times index leaves the 16-bit range, both builds
WideInputs ==
    { Input(ElfMagic, secs, 0, 32768, FullLen(secs, 32768), 0, oc) :
        secs \in SecSeqs(PlainMenu), oc \in BOOLEAN }

\* one failing seek or read during sections_from_file
FaultInputs ==
    LET secs == << [type |-> SHT_STRTAB, name |-> 0, size |-> 4],
                   [type |-> SHT_PROGBITS, name |-> 1, size |-> 4] >>
    IN  { Input(ElfMagic, secs, 0, 64, FullLen(secs, 64), fa, FALSE) :
            fa \in (Len(HeaderReads) + 1) .. (Len(HeaderReads) + 18) }

Inputs == HeaderInputs \cup SectionInputs \cup WideInputs \cup FaultInputs

Init ==
    \E in \in Inputs :
        /\ file = MkFile(in)
        /\ failAt = in.failAt
        /\ overflowChecks = in.oc
        /\ pos = 0
        /\ ioCount = 0
        /\ hdr = ElfHeadersNew
        /\ pc = "start"
        /\ result = NoResult
        /\ reads = <<>>
        /\ sections = <<>>
        /\ string_table_data = <<>>
        /\ returned = <<>>

Next ==
    \/ FromFile
    \/ ReadSectionHeaders
    \/ ReadSectionData
    \/ GetStringTable
    \/ ExpandNames

Spec == Init /\ [][Next]_vars

\* ------------------------------------------------------------ properties
SourceStartsWithMagic ==
    /\ file.len >= 4
    /\ \A i \in 1..4 : ByteAt(file, i - 1) = ElfMagic[i]

AfterFromFile == pc \in {"parsed", "failed"}

\* both loops of sections_from_file ran to their end
TableAndPayloadsRead ==
    /\ pc \in {"strtab", "names", "done"}
    /\ Len(sections) = hdr.sheader_count

\* payload reads that delivered fewer bytes than requested
ShortPayloadReads ==
    { k \in 1..Len(reads) :
        /\ reads[k].who = "data"
        /\ reads[k].op = "read"
        /\ reads[k].got # NoArg
        /\ reads[k].got < reads[k].want }

\* C1: when the first 16-byte read of from_file completes on a source whose
\* first 4 bytes are not 7F 45 4C 46, from_file fails with the not-an-ELF error
\* (no I/O cause), has issued that one read only, and has left every field of
\* the header record as it was before the call.
C1_NotElfReadsNothingMore ==
    (/\ AfterFromFile
     /\ Len(reads) >= 1
     /\ reads[1].got # NoArg
     /\ ~SourceStartsWithMagic)
    => /\ result = NotElfError
       /\ result.cause = "None"
       /\ Len(reads) = 1
       /\ reads[1].want = EIDENTSIZE
       /\ hdr = ElfHeadersNew

C1_Witness ==
    /\ pc = "failed"
    /\ result = NotElfError
    /\ file.len >= EIDENTSIZE
    /\ ByteAt(file, 3) # ElfMagic[4]
    /\ Len(reads) = 1

\* C2: every NoBits section of a sequence returned with Ok has empty data,
\* whatever its declared size, and no seek or read was issued for its payload.
C2_NoBitsDataEmpty ==
    (pc = "done" /\ result.tag = "Ok")
    => \A i \in 1..Len(returned) :
          returned[i].header.sec_type = "NoBits"
          => /\ returned[i].data = <<>>
             /\ \A k \in 1..Len(reads) :
                   ~(reads[k].who = "data" /\ reads[k].idx = i - 1)

\* C3: every non-NoBits section of a sequence returned with Ok has data of
\* length header.size, equal to the bytes of the source at
\* [offset, offset + size).
C3_DataIsTheDeclaredBytes ==
    (pc = "done" /\ result.tag = "Ok")
    => \A i \in 1..Len(returned) :
          returned[i].header.sec_type # "NoBits"
          => /\ Len(returned[i].data) = returned[i].header.size
             /\ \A j \in 1..returned[i].header.size :
                   /\ returned[i].header.offset + j - 1 < file.len
                   /\ returned[i].data[j] =
                          ByteAt(file, returned[i].header.offset + j - 1)

C3_Witness ==
    /\ pc = "done"
    /\ result.tag = "Ok"
    /\ \E i \in 1..Len(returned) :
          /\ returned[i].header.sec_type = "ProgramData"
          /\ returned[i].header.size = 4
          /\ returned[i].data = StrBytes

\* C4: once the section table and the payloads are read, if the section at
\* index str_header_index is not of type StringTable, sections_from_file fails
\* with the string-table-type error and returns no sections, and no section's
\* str_name has been written: name resolution never starts.
C4_StringTableTypeCheckedFirst ==
    (/\ TableAndPayloadsRead
     /\ pc # "strtab"
     /\ hdr.str_header_index < Len(sections)
     /\ sections[hdr.str_header_index + 1].header.sec_type # "StringTable")
    => /\ pc = "done"
       /\ result = StringTableTypeError
       /\ returned = <<>>
       /\ \A i \in 1..Len(sections) : sections[i].header.str_name = <<>>

C4_Witness ==
    /\ pc = "done"
    /\ result = StringTableTypeError
    /\ Len(sections) >= 2
    /\ \E i \in 1..Len(sections) : sections[i].header.name = 1

\* C5 as claimed: a short read of the payload of the section at table index i
\* makes sections_from_file fail with an error that names index i.
C5_ShortReadErrorNamesIndex ==
    \A k \in ShortPayloadReads :
        /\ pc = "done"
        /\ result.tag = "Err"
        /\ result.arg = reads[k].idx

\* C5 as amended: a short read of the payload of a non-NoBits section makes
\* sections_from_file fail at once with an error without I/O cause whose
\* message names the number of bytes requested, the section's declared size;
\* nothing is returned and no later section is read.
C5_ShortReadErrorNamesSize ==
    \A k \in ShortPayloadReads :
        /\ pc = "done"
        /\ result = ShortReadError(reads[k].want)
        /\ result.cause = "None"
        /\ returned = <<>>
        /\ k = Len(reads)
        /\ Len(sections) = reads[k].idx

C5_Witness ==
    /\ pc = "done"
    /\ \E k \in ShortPayloadReads : reads[k].idx >= 1 /\ reads[k].got = 2

\* C6: from_file never returns Ok after a read that delivered fewer bytes
\* than requested.
C6_ShortReadFailsHeader ==
    pc = "parsed"
    => \A k \in 1..Len(reads) : reads[k].got = reads[k].want

\* C7: with str_header_index >= sheader_count, sections_from_file returns an
\* error value; it does not panic and does not return Ok.
C7_IndexOutOfRangeIsAnError ==
    (pc = "done" /\ hdr.str_header_index >= hdr.sheader_count)
    => result.tag = "Err"

\* C8: sections_from_file returns Ok only if, for every section, the string
\* table payload holds a zero byte at a position >= the section's name offset.
C8_NamesAreTerminated ==
    (pc = "done" /\ result.tag = "Ok")
    => \A i \in 1..Len(returned) :
          \E p \in (returned[i].header.name + 1)..Len(string_table_data) :
              string_table_data[p] = 0

\* C9: whenever from_file fails, the header record holds no field decoded
\* during the failed call.
C9_NoPartialHeader ==
    pc = "failed" => hdr = ElfHeadersNew

\* C10: a successful sections_from_file returns sheader_count sections, entry
\* i decoded from section_offset + i * sheader_size computed without
\* wrap-around, and the product never fails with an overflow.
C10_EntryOffsetsExact ==
    /\ pc = "done" => result # PanicResult("attempt to multiply with overflow")
    /\ (pc = "done" /\ result.tag = "Ok")
       => /\ Len(returned) = hdr.sheader_count
          /\ \A i \in 1..Len(returned) :
                returned[i].header.ptr =
                    hdr.section_offset + (i - 1) * hdr.sheader_size

====
